---- MODULE Spec2Model ----
(***************************************************************************)
(* Day 21 of chprat/aoc24 (src/21/src/main.rs): the keypad chain.          *)
(*                                                                         *)
(* A PIN is typed on a numeric keypad by a robot that is steered through a *)
(* chain of directional keypads.  get_paths enumerates the candidate key   *)
(* sequences between two keys, find_shortest_len translates a sequence     *)
(* through the chain (memoised by (depth, sequence)), and solver sums the  *)
(* complexities of the PINs of the input.                                  *)
(*                                                                         *)
(* A String is modelled as a sequence of one-character strings, a Point    *)
(* (x, y) as the pair <<x, y>> (x the row, y the column).                  *)
(***************************************************************************)
EXTENDS Integers, Sequences, FiniteSets, TLC

VARIABLES
    \* solver (one run)
    part2,      \* the flag solver is called with
    input,      \* the lines read_data returned
    idx,        \* how many PINs the iterator has mapped
    total,      \* the running sum
    spc,        \* "idle", "run", "done", "panic"
    \* find_shortest_len (one outermost call), shared with solver
    pin,        \* the sequence of the call
    depth,      \* the depth of the call
    max_depth,  \* the last depth of the chain
    cache,      \* the HashMap<(usize, String), usize>
    len,        \* the value returned
    epc,        \* "idle", "call", "done", "panic"
    \* Keypad::get_paths (one call)
    g_pad,      \* "numeric" or "directional": the keypad self
    first,      \* the key the path starts at
    second,     \* the key the path ends at
    q,          \* the VecDeque of (Point, path so far)
    res,        \* the Vec of finished paths
    gpc,        \* "idle", "start", "loop", "done", "panic"
    \* the calls in progress, when find_shortest_len is followed call by call
    plan,       \* the values of part2 solver is still to be invoked with
    stack,      \* the activations of find_shortest_len, the outermost first
    misses,     \* (depth, pin) -> how often the body ran in this invocation
    enums,      \* (depth, a, b) -> how often get_paths ran in this invocation
    \* the closure of solver for several pins at a time, on one cache
    evs,        \* the evaluations: pin, activations, "call"/"done"/"panic", len
    writes      \* (depth, pin) -> the values that were inserted, in order

solverVars == <<part2, input, idx, total, spc>>
evalVars == <<pin, depth, max_depth, cache, len, epc>>
pathVars == <<g_pad, first, second, q, res, gpc>>
callVars == <<plan, stack, misses, enums>>
shareVars == <<evs, writes>>
vars == <<solverVars, evalVars, pathVars, callVars, shareVars>>

----------------------------------------------------------------------------
(* Bounds of the model *)

\* the longest PIN / key sequence the evaluator is called with directly
MaxPinLen == 2

\* the longest chain (max_depth) find_shortest_len is called with directly
MaxDepth == 2

\* the most lines of an input file, the example apart
MaxPins == 2

----------------------------------------------------------------------------
(* Keypads *)

NumericSymbols == {"0", "1", "2", "3", "4", "5", "6", "7", "8", "9", "A"}
DirectionalSymbols == {"^", "A", "<", "v", ">"}
\* a character that is a key of neither keypad
OtherSymbols == {"+"}
Symbols == NumericSymbols \cup DirectionalSymbols \cup OtherSymbols

\* a bug: the key 0 is where the gap of the numeric keypad is
numericZeroInGap ==
    [keys |-> ("7" :> <<0, 0>>) @@ ("8" :> <<0, 1>>) @@ ("9" :> <<0, 2>>) @@
              ("4" :> <<1, 0>>) @@ ("5" :> <<1, 1>>) @@ ("6" :> <<1, 2>>) @@
              ("1" :> <<2, 0>>) @@ ("2" :> <<2, 1>>) @@ ("3" :> <<2, 2>>) @@
              ("0" :> <<3, 0>>) @@ ("A" :> <<3, 2>>),
     forbidden |-> <<3, 0>>]

\* Keypad::numeric()
numeric ==
    [keys |-> ("7" :> <<0, 0>>) @@ ("8" :> <<0, 1>>) @@ ("9" :> <<0, 2>>) @@
              ("4" :> <<1, 0>>) @@ ("5" :> <<1, 1>>) @@ ("6" :> <<1, 2>>) @@
              ("1" :> <<2, 0>>) @@ ("2" :> <<2, 1>>) @@ ("3" :> <<2, 2>>) @@
              ("0" :> <<3, 1>>) @@ ("A" :> <<3, 2>>),
     forbidden |-> <<3, 0>>]

\* Keypad::directional()
directional ==
    [keys |-> ("^" :> <<0, 1>>) @@ ("A" :> <<0, 2>>) @@
              ("<" :> <<1, 0>>) @@ ("v" :> <<1, 1>>) @@ (">" :> <<1, 2>>),
     forbidden |-> <<0, 0>>]

PadNames == {"numeric", "directional"}
Keypad(name) == IF name = "numeric" THEN numeric ELSE directional

\* self.keys[&c] is defined (HashMap's Index panics otherwise)
HasKey(pad, c) == c \in DOMAIN pad.keys

----------------------------------------------------------------------------
(* Keypad::get_paths *)

\* iter::repeat(c).take(n)
RECURSIVE Repeat(_, _)

\* a bug: the run is one key too long
RepeatOneMore(c, n) == <<c>> \o [i \in 1..n |-> c]

Repeat(c, n) == IF n = 0 THEN <<>> ELSE <<c>> \o Repeat(c, n - 1)

\* a bug: the "left" block does not look at the gap
GuardLeftNoGap(pad, t, x, y) == t[2] < y

\* the guard of the "left" block (lines 103-106)
GuardLeft(pad, t, x, y) ==
    /\ t[2] < y
    /\ ~(pad.forbidden[1] = x /\ pad.forbidden[2] < y /\ pad.forbidden[2] >= t[2])

\* a bug: the "up" block takes the gap to be in every column
GuardUpAnyColumn(pad, t, x, y) ==
    /\ t[1] < x
    /\ ~(pad.forbidden[1] < x /\ pad.forbidden[1] >= t[1])

\* a bug: the "up" block does not look at the gap
GuardUpNoGap(pad, t, x, y) == t[1] < x

\* the guard of the "up" block (lines 113-116)
GuardUp(pad, t, x, y) ==
    /\ t[1] < x
    /\ ~(pad.forbidden[2] = y /\ pad.forbidden[1] < x /\ pad.forbidden[1] >= t[1])

\* the guard of the "right" block (lines 123-126)
GuardRight(pad, t, x, y) ==
    /\ t[2] > y
    /\ ~(pad.forbidden[1] = x /\ pad.forbidden[2] > y /\ pad.forbidden[2] <= t[2])

\* a bug: the "down" block does not look at the cell that the run ends on
GuardDownEndExcluded(pad, t, x, y) ==
    /\ t[1] > x
    /\ ~(pad.forbidden[2] = y /\ pad.forbidden[1] > x /\ pad.forbidden[1] < t[1])

\* the guard of the "down" block (lines 133-136)
GuardDown(pad, t, x, y) ==
    /\ t[1] > x
    /\ ~(pad.forbidden[2] = y /\ pad.forbidden[1] > x /\ pad.forbidden[1] <= t[1])

\* a bug: the blocks are in the order up, down, left, right
ExpandRowsFirst(pad, t, item) ==
    LET x == item.pos[1]
        y == item.pos[2]
    IN  (IF GuardUp(pad, t, x, y)
            THEN <<[pos |-> <<t[1], y>>, path |-> item.path \o Repeat("^", x - t[1])]>>
            ELSE <<>>)
        \o
        (IF GuardDown(pad, t, x, y)
            THEN <<[pos |-> <<t[1], y>>, path |-> item.path \o Repeat("v", t[1] - x)]>>
            ELSE <<>>)
        \o
        (IF GuardLeft(pad, t, x, y)
            THEN <<[pos |-> <<x, t[2]>>, path |-> item.path \o Repeat("<", y - t[2])]>>
            ELSE <<>>)
        \o
        (IF GuardRight(pad, t, x, y)
            THEN <<[pos |-> <<x, t[2]>>, path |-> item.path \o Repeat(">", t[2] - y)]>>
            ELSE <<>>)

\* what one iteration of the while loop pushes to the back of q for an item
\* that is not at the target: the four blocks in the order left, up, right, down
Expand(pad, t, item) ==
    LET x == item.pos[1]
        y == item.pos[2]
    IN  (IF GuardLeft(pad, t, x, y)
            THEN <<[pos |-> <<x, t[2]>>, path |-> item.path \o Repeat("<", y - t[2])]>>
            ELSE <<>>)
        \o
        (IF GuardUp(pad, t, x, y)
            THEN <<[pos |-> <<t[1], y>>, path |-> item.path \o Repeat("^", x - t[1])]>>
            ELSE <<>>)
        \o
        (IF GuardRight(pad, t, x, y)
            THEN <<[pos |-> <<x, t[2]>>, path |-> item.path \o Repeat(">", t[2] - y)]>>
            ELSE <<>>)
        \o
        (IF GuardDown(pad, t, x, y)
            THEN <<[pos |-> <<t[1], y>>, path |-> item.path \o Repeat("v", t[1] - x)]>>
            ELSE <<>>)

\* a bug: the first key is in the queue twice
InitialQueueTwice(pad, a) ==
    <<[pos |-> pad.keys[a], path |-> <<>>], [pos |-> pad.keys[a], path |-> <<>>]>>

\* the queue get_paths starts with (line 94)
InitialQueue(pad, a) == <<[pos |-> pad.keys[a], path |-> <<>>]>>

\* the while loop of get_paths, run to the end: the value of res
RECURSIVE Search(_, _, _, _)
Search(pad, t, queue, found) ==
    IF queue = <<>> THEN found
    ELSE LET item == Head(queue)
         IN  IF item.pos = t
                THEN Search(pad, t, Tail(queue), Append(found, item.path \o <<"A">>))
                ELSE Search(pad, t, Tail(queue) \o Expand(pad, t, item), found)

\* pad.get_paths(a, b), for keys a and b of the keypad
GetPaths(pad, a, b) == Search(pad, pad.keys[b], InitialQueue(pad, a), <<>>)

(* get_paths as a process: one step per statement group *)

\* line 94 with a first key the keypad does not have: the index panics
GetPathsPanicFirst ==
    /\ gpc = "start"
    /\ ~HasKey(Keypad(g_pad), first)
    /\ gpc' = "panic"
    /\ UNCHANGED <<g_pad, first, second, q, res>>
    /\ UNCHANGED <<solverVars, evalVars, callVars, shareVars>>

\* lines 94-95
GetPathsBegin ==
    /\ gpc = "start"
    /\ HasKey(Keypad(g_pad), first)
    /\ q' = InitialQueue(Keypad(g_pad), first)
    /\ res' = <<>>
    /\ gpc' = "loop"
    /\ UNCHANGED <<g_pad, first, second>>
    /\ UNCHANGED <<solverVars, evalVars, callVars, shareVars>>

\* a bug: a second key the keypad does not have ends the search, and what
\* was found (nothing) is returned
GetPathsReturnsOnUnknown ==
    /\ gpc = "loop"
    /\ q # <<>>
    /\ ~HasKey(Keypad(g_pad), second)
    /\ gpc' = "done"
    /\ UNCHANGED <<g_pad, first, second, q, res>>
    /\ UNCHANGED <<solverVars, evalVars, callVars, shareVars>>

\* line 97 with a second key the keypad does not have: the index panics
GetPathsPanicSecond ==
    /\ gpc = "loop"
    /\ q # <<>>
    /\ ~HasKey(Keypad(g_pad), second)
    /\ gpc' = "panic"
    /\ UNCHANGED <<g_pad, first, second, q, res>>
    /\ UNCHANGED <<solverVars, evalVars, callVars, shareVars>>

\* a bug: the path is returned without the press of the key
GetPathsEmitNoPress ==
    /\ gpc = "loop"
    /\ q # <<>>
    /\ HasKey(Keypad(g_pad), second)
    /\ Head(q).pos = Keypad(g_pad).keys[second]
    /\ res' = Append(res, Head(q).path)
    /\ q' = Tail(q)
    /\ UNCHANGED <<g_pad, first, second, gpc>>
    /\ UNCHANGED <<solverVars, evalVars, callVars, shareVars>>

\* lines 96-101: the popped item is at the target
GetPathsEmit ==
    /\ gpc = "loop"
    /\ q # <<>>
    /\ HasKey(Keypad(g_pad), second)
    /\ Head(q).pos = Keypad(g_pad).keys[second]
    /\ res' = Append(res, Head(q).path \o <<"A">>)
    /\ q' = Tail(q)
    /\ UNCHANGED <<g_pad, first, second, gpc>>
    /\ UNCHANGED <<solverVars, evalVars, callVars, shareVars>>

\* lines 96-97, 102-141: the popped item is not at the target
GetPathsExpand ==
    /\ gpc = "loop"
    /\ q # <<>>
    /\ HasKey(Keypad(g_pad), second)
    /\ Head(q).pos # Keypad(g_pad).keys[second]
    /\ q' = Tail(q) \o Expand(Keypad(g_pad), Keypad(g_pad).keys[second], Head(q))
    /\ UNCHANGED <<g_pad, first, second, res, gpc>>
    /\ UNCHANGED <<solverVars, evalVars, callVars, shareVars>>

\* lines 96, 143: the queue is empty, res is returned
GetPathsReturn ==
    /\ gpc = "loop"
    /\ q = <<>>
    /\ gpc' = "done"
    /\ UNCHANGED <<g_pad, first, second, q, res>>
    /\ UNCHANGED <<solverVars, evalVars, callVars, shareVars>>

----------------------------------------------------------------------------
(* usize values.  The costs of the long chain exceed the integers the model *)
(* checker computes with, so a usize is kept as two limbs, hi * Base + lo. *)

Base == 10^9

\* the usize with the (small) value n
U(n) == [hi |-> n \div Base, lo |-> n % Base]

\* a + b
UAdd(a, b) ==
    [hi |-> a.hi + b.hi + ((a.lo + b.lo) \div Base), lo |-> (a.lo + b.lo) % Base]

\* a <= b
ULeq(a, b) == a.hi < b.hi \/ (a.hi = b.hi /\ a.lo <= b.lo)

\* a * n, for a usize a and a small n
UDouble(a) == UAdd(a, a)

\* the half product h of a * n is worked out once, and doubled
RECURSIVE UMul(_, _)
UMul(a, n) ==
    IF n = 0 THEN U(0)
    ELSE CHOOSE v \in { IF n % 2 = 0 THEN UDouble(h) ELSE UAdd(UDouble(h), a) :
                           h \in {UMul(a, n \div 2)} } : TRUE

\* Iterator::min over a sequence of usize values (not empty)
RECURSIVE UMinFrom(_, _, _)
UMinFrom(vals, i, best) ==
    IF i > Len(vals) THEN best
    ELSE UMinFrom(vals, i + 1, IF ULeq(best, vals[i]) THEN best ELSE vals[i])

UMin(vals) == UMinFrom(vals, 2, vals[1])

----------------------------------------------------------------------------
(* find_shortest_len *)

\* HashMap::new()
EmptyCache == <<>>

\* a bug: the depth is left out of the key that is looked up
CacheGetAnyDepth(c, d, p) == {c[k] : k \in {j \in DOMAIN c : j[2] = p}}

\* cache.get(&(depth, pin)): no value (None) or one (Some)
CacheGet(c, d, p) == IF <<d, p>> \in DOMAIN c THEN {c[<<d, p>>]} ELSE {}

\* a bug: the depth is left out of the key that is stored
CacheInsertNoDepth(c, d, p, v) == (<<0, p>> :> v) @@ c

\* cache.insert((depth, pin), v): an entry of the key is replaced
CacheInsert(c, d, p, v) == (<<d, p>> :> v) @@ c

\* the keypad of a depth (line 160)
PadOf(d) == IF d = 0 THEN numeric ELSE directional

\* the outcome of a computation that panicked with cache c
Panicked(c) == [len |-> U(0), cache |-> c, ok |-> FALSE]

\* the outcome of a computation that returned v with cache c
Returned(v, c) == [len |-> v, cache |-> c, ok |-> TRUE]

\* a bug: the activation at the end of a path is not counted
LengthsOfMoves(paths) == [i \in DOMAIN paths |-> U(Len(paths[i]) - 1)]

\* paths.iter().map(String::len)
Lengths(paths) == [i \in DOMAIN paths |-> U(Len(paths[i]))]

\* a bug: the first candidate is taken for the cheapest
FirstUnwrap(vals, c) == IF vals = <<>> THEN Panicked(c) ELSE Returned(vals[1], c)

\* min().unwrap() of a sequence of costs, with cache c (lines 167, 172-173)
MinUnwrap(vals, c) == IF vals = <<>> THEN Panicked(c) ELSE Returned(UMin(vals), c)

RECURSIVE FindShortestLen(_, _, _, _)
RECURSIVE Translate(_, _, _, _, _)
RECURSIVE SumPairs(_, _, _, _, _)

\* the costs of the candidates after the first, behind the cost v of the first
Prepend(v, rest) ==
    [lens |-> <<v>> \o rest.lens, cache |-> rest.cache, ok |-> rest.ok]

\* the j-th candidate has been translated with outcome r: the others follow
\* with the cache it left
TranslateRest(paths, j, d, maxd, r) ==
    IF ~r.ok THEN [lens |-> <<>>, cache |-> r.cache, ok |-> FALSE]
    ELSE Prepend(r.len, Translate(paths, j + 1, d, maxd, r.cache))

\* lines 169-171: the candidates from the j-th on translated at depth + 1, in
\* order, each call seeing the cache the calls before it left
Translate(paths, j, d, maxd, c) ==
    IF j > Len(paths) THEN [lens |-> <<>>, cache |-> c, ok |-> TRUE]
    ELSE TranslateRest(paths, j, d, maxd, FindShortestLen(paths[j], d + 1, maxd, c))

\* lines 172-173: the least of the translated costs r
MinTranslated(r) == IF ~r.ok THEN Panicked(r.cache) ELSE MinUnwrap(r.lens, r.cache)

\* lines 164-175: the closure mapped over a window (a, b)
PairLen(a, b, d, maxd, c) ==
    IF ~HasKey(PadOf(d), a) \/ ~HasKey(PadOf(d), b) THEN Panicked(c)
    ELSE IF d = maxd
            THEN MinUnwrap(Lengths(GetPaths(PadOf(d), a, b)), c)
            ELSE MinTranslated(Translate(GetPaths(PadOf(d), a, b), 1, d, maxd, c))

\* the sum of the windows after one, added to the cost v of that one
AddLen(v, rest) ==
    [len |-> UAdd(v, rest.len), cache |-> rest.cache, ok |-> rest.ok]

\* the i-th window has been mapped with outcome m: the others follow with the
\* cache it left
SumRest(s, i, d, maxd, m) ==
    IF ~m.ok THEN m ELSE AddLen(m.len, SumPairs(s, i + 1, d, maxd, m.cache))

\* lines 161-176: the sum over the windows of s from the i-th on
SumPairs(s, i, d, maxd, c) ==
    IF i >= Len(s) THEN Returned(U(0), c)
    ELSE SumRest(s, i, d, maxd, PairLen(s[i], s[i + 1], d, maxd, c))

\* a bug: the sum is stored under the sequence without its first symbol
MemoiseUnderTail(p, d, r) ==
    IF ~r.ok THEN r
    ELSE Returned(r.len, CacheInsert(r.cache, d, IF p = <<>> THEN p ELSE Tail(p), r.len))

\* lines 178-179: the sum r is stored under (d, p) and returned
Memoise(p, d, r) ==
    IF ~r.ok THEN r ELSE Returned(r.len, CacheInsert(r.cache, d, p, r.len))

\* lines 156-158: the value stored under (d, p) is returned
Cached(c, d, p) == Returned(CHOOSE v \in CacheGet(c, d, p) : TRUE, c)

\* a bug: the sequence is not prefixed with the key A the arm rests on
FindShortestLenNoStart(p, d, maxd, c) ==
    IF CacheGet(c, d, p) # {} THEN Cached(c, d, p)
    ELSE Memoise(p, d, SumPairs(p, 1, d, maxd, c))

\* find_shortest_len(n_pad, d_pad, p, d, maxd, &mut c), for d <= maxd
FindShortestLen(p, d, maxd, c) ==
    IF CacheGet(c, d, p) # {} THEN Cached(c, d, p)
    ELSE Memoise(p, d, SumPairs(<<"A">> \o p, 1, d, maxd, c))

\* the sequences over the characters S of at most n characters
RECURSIVE SeqsUpTo(_, _)
SeqsUpTo(S, n) ==
    IF n = 0 THEN {<<>>}
    ELSE LET shorter == SeqsUpTo(S, n - 1)
         IN  shorter \cup {Append(s, c) : s \in shorter, c \in S}

(* one outermost call of find_shortest_len *)

\* the call returned with outcome r
HasReturned(r) ==
    /\ r.ok
    /\ len' = r.len
    /\ cache' = r.cache

\* the call panicked with outcome r
HasPanicked(r) ==
    /\ ~r.ok
    /\ cache' = r.cache

\* the call returns
EvalReturn ==
    /\ epc = "call"
    /\ HasReturned(FindShortestLen(pin, depth, max_depth, cache))
    /\ epc' = "done"
    /\ UNCHANGED <<pin, depth, max_depth>>
    /\ UNCHANGED <<solverVars, pathVars, callVars, shareVars>>

\* the call panics
EvalPanic ==
    /\ epc = "call"
    /\ HasPanicked(FindShortestLen(pin, depth, max_depth, cache))
    /\ epc' = "panic"
    /\ UNCHANGED <<pin, depth, max_depth, len>>
    /\ UNCHANGED <<solverVars, pathVars, callVars, shareVars>>

----------------------------------------------------------------------------
(* solver *)

\* a bug: the long chain is one keypad short
MaxDepthOneShort(p2) == IF p2 THEN 24 ELSE 2

\* line 39
MaxDepthOf(p2) == IF p2 THEN 25 ELSE 2

Digits == {"0", "1", "2", "3", "4", "5", "6", "7", "8", "9"}

DigitValue(c) ==
    CASE c = "0" -> 0 [] c = "1" -> 1 [] c = "2" -> 2 [] c = "3" -> 3 [] c = "4" -> 4
      [] c = "5" -> 5 [] c = "6" -> 6 [] c = "7" -> 7 [] c = "8" -> 8 [] c = "9" -> 9

\* the value of the decimal digits s[1..n]
RECURSIVE Decimal(_, _)
Decimal(s, n) == IF n = 0 THEN 0 ELSE 10 * Decimal(s, n - 1) + DigitValue(s[n])

\* str::parse::<usize>: one or more decimal digits, after an optional "+"
ParseUsize(s) ==
    LET body == IF s # <<>> /\ s[1] = "+" THEN Tail(s) ELSE s
    IN  IF body # <<>> /\ \A i \in DOMAIN body : body[i] \in Digits
           THEN [ok |-> TRUE, val |-> Decimal(body, Len(body))]
           ELSE [ok |-> FALSE, val |-> 0]

\* a bug: the last character of the pin is not cut off
NumericPartOfWholePin(p) == ParseUsize(p)

\* a bug: a pin without a number in front counts with the number 0
NumericPartOrZero(p) ==
    IF p = <<>> THEN [ok |-> TRUE, val |-> 0]
    ELSE [ok |-> TRUE, val |-> ParseUsize(SubSeq(p, 1, Len(p) - 1)).val]

\* pin[0..pin.len() - 1].parse::<usize>() (line 48): the slice panics for an
\* empty pin, unwrap panics when the front of the pin is no number
NumericPart(p) ==
    IF p = <<>> THEN [ok |-> FALSE, val |-> 0]
    ELSE ParseUsize(SubSeq(p, 1, Len(p) - 1))

\* lines 46-49: the closure mapped over a pin, with cache c: the product, the
\* cache it leaves, and whether it returned
Product(r, n) ==
    IF r.ok /\ n.ok THEN Returned(UMul(r.len, n.val), r.cache) ELSE Panicked(r.cache)

Complexity(p, maxd, c) == Product(FindShortestLen(p, 0, maxd, c), NumericPart(p))

(* one run of solver *)

\* the closure returned r: the product is added to the sum
Mapped(r) ==
    /\ r.ok
    /\ total' = UAdd(total, r.len)
    /\ cache' = r.cache

\* the closure panicked with outcome r
Unwound(r) ==
    /\ ~r.ok
    /\ cache' = r.cache

\* lines 44-50: the iterator maps the next pin and adds the product to the sum
SolverMap ==
    /\ spc = "run"
    /\ idx < Len(input)
    /\ Mapped(Complexity(input[idx + 1], max_depth, cache))
    /\ idx' = idx + 1
    /\ UNCHANGED <<part2, input, spc>>
    /\ UNCHANGED <<pin, depth, max_depth, len, epc>>
    /\ UNCHANGED <<pathVars, callVars, shareVars>>

\* lines 46-49: the closure panics on the next pin
SolverPanic ==
    /\ spc = "run"
    /\ idx < Len(input)
    /\ Unwound(Complexity(input[idx + 1], max_depth, cache))
    /\ spc' = "panic"
    /\ UNCHANGED <<part2, input, idx, total>>
    /\ UNCHANGED <<pin, depth, max_depth, len, epc>>
    /\ UNCHANGED <<pathVars, callVars, shareVars>>

\* line 50: the iterator is exhausted, the sum is returned
SolverReturn ==
    /\ spc = "run"
    /\ idx = Len(input)
    /\ spc' = "done"
    /\ UNCHANGED <<part2, input, idx, total>>
    /\ UNCHANGED evalVars
    /\ UNCHANGED <<pathVars, callVars, shareVars>>

----------------------------------------------------------------------------
(* find_shortest_len and solver, call by call.  An activation of           *)
(* find_shortest_len is a frame of the stack; get_paths is taken in one     *)
(* step, which leaves the call and its result in the variables of get_paths. *)

\* the longest run of calls beyond max_depth that is followed, for a call that
\* was entered with a depth above max_depth
MaxExcess == 2

\* the activation of find_shortest_len(.., p, d, ..) about to look at the cache
Frame(p, d) ==
    [pin |-> p, depth |-> d, pc |-> "enter",
     i |-> 1, sum |-> U(0),             \* the window to map next, the sum so far
     paths |-> <<>>, j |-> 1, lens |-> <<>>]  \* the candidates of the window

\* the activation that is running
Top == stack[Len(stack)]

\* a bug: the sequence is chained with the key A at both ends
ChainedBothEnds == <<"A">> \o Top.pin \o <<"A">>

\* iter::once('A').chain(pin.chars()) of the running activation (lines 161-162)
Chained == <<"A">> \o Top.pin

\* a bug: the two keypads are taken for each other
PadNameSwapped(d) == IF d = 0 THEN "directional" ELSE "numeric"

\* line 160: the keypad of a depth
PadNameOf(d) == IF d = 0 THEN "numeric" ELSE "directional"

\* get_paths is a function of the keypad and the two keys: what it returns
\* for each keypad and each two of its keys
PathTable ==
    [n \in PadNames |->
        [a \in DOMAIN Keypad(n).keys |->
            [b \in DOMAIN Keypad(n).keys |-> GetPaths(Keypad(n), a, b)]]]

\* pad.get_paths(a, b) for the keypad of depth d and two of its keys
PathsAt(d, a, b) == PathTable[PadNameOf(d)][a][b]

\* one more occurrence of k in the counts
Bump(counts, k) ==
    IF k \in DOMAIN counts THEN [counts EXCEPT ![k] = @ + 1] ELSE (k :> 1) @@ counts

\* the caller takes the value v of the candidate it translated (line 171)
Resume(f, v) == [f EXCEPT !.lens = Append(@, v), !.j = @ + 1]

\* the running activation returns v, to the activation below it or to whoever
\* made the outermost call
Returns(v) ==
    IF Len(stack) = 1
       THEN /\ stack' = <<>>
            /\ len' = v
            /\ epc' = "done"
       ELSE /\ stack' = [SubSeq(stack, 1, Len(stack) - 1)
                            EXCEPT ![Len(stack) - 1] = Resume(@, v)]
            /\ UNCHANGED <<len, epc>>

\* the window mapped: its cost v is added, the next window follows
Summed(f, v) == [f EXCEPT !.sum = UAdd(@, v), !.i = @ + 1, !.pc = "window"]

\* pad.get_paths(a, b) was called at depth d and returned r
Enumerated(d, a, b, r) ==
    /\ g_pad' = PadNameOf(d)
    /\ first' = a
    /\ second' = b
    /\ q' = <<>>
    /\ res' = r
    /\ gpc' = "done"
    /\ enums' = Bump(enums, <<d, a, b>>)

\* pad.get_paths(a, b) was called at depth d and panicked
EnumerationPanicked(d, a, b) ==
    /\ g_pad' = PadNameOf(d)
    /\ first' = a
    /\ second' = b
    /\ q' = <<>>
    /\ res' = <<>>
    /\ gpc' = "panic"
    /\ enums' = Bump(enums, <<d, a, b>>)

Running == epc = "call" /\ stack # <<>>

\* lines 156-158: the key is in the cache
CallCached ==
    /\ Running
    /\ Top.pc = "enter"
    /\ CacheGet(cache, Top.depth, Top.pin) # {}
    /\ Returns(CHOOSE v \in CacheGet(cache, Top.depth, Top.pin) : TRUE)
    /\ UNCHANGED <<pin, depth, max_depth, cache>>
    /\ UNCHANGED <<solverVars, pathVars, plan, shareVars, misses, enums>>

\* lines 156, 160-163: the key is not in the cache, the body starts
CallBody ==
    /\ Running
    /\ Top.pc = "enter"
    /\ CacheGet(cache, Top.depth, Top.pin) = {}
    /\ stack' = [stack EXCEPT ![Len(stack)].pc = "window"]
    /\ misses' = Bump(misses, <<Top.depth, Top.pin>>)
    /\ UNCHANGED <<solverVars, evalVars, pathVars, plan, shareVars, enums>>

\* the next window has two keys of the keypad of the depth
WindowOfKeys ==
    /\ Running
    /\ Top.pc = "window"
    /\ Top.i < Len(Chained)
    /\ HasKey(Keypad(PadNameOf(Top.depth)), Chained[Top.i])
    /\ HasKey(Keypad(PadNameOf(Top.depth)), Chained[Top.i + 1])

\* lines 165-167: at the last depth the window costs the length of the
\* shortest candidate
WindowLeaf ==
    /\ WindowOfKeys
    /\ Top.depth = max_depth
    /\ Enumerated(Top.depth, Chained[Top.i], Chained[Top.i + 1],
                  PathsAt(Top.depth, Chained[Top.i], Chained[Top.i + 1]))
    /\ stack' = [stack EXCEPT ![Len(stack)] =
                    Summed(@, UMin(Lengths(PathsAt(Top.depth, Chained[Top.i],
                                                   Chained[Top.i + 1]))))]
    /\ UNCHANGED <<solverVars, evalVars, plan, shareVars, misses>>

\* lines 165, 168-171: at another depth the candidates are to be translated
WindowPaths ==
    /\ WindowOfKeys
    /\ Top.depth # max_depth
    /\ Enumerated(Top.depth, Chained[Top.i], Chained[Top.i + 1],
                  PathsAt(Top.depth, Chained[Top.i], Chained[Top.i + 1]))
    /\ stack' = [stack EXCEPT ![Len(stack)] =
                    [@ EXCEPT !.pc = "paths", !.j = 1, !.lens = <<>>,
                              !.paths = PathsAt(Top.depth, Chained[Top.i],
                                                Chained[Top.i + 1])]]
    /\ UNCHANGED <<solverVars, evalVars, plan, shareVars, misses>>

\* line 165: a character of the window is no key of the keypad, get_paths
\* panics; the panic unwinds through solver, if solver made the call
WindowPanic ==
    /\ Running
    /\ Top.pc = "window"
    /\ Top.i < Len(Chained)
    /\ \/ ~HasKey(Keypad(PadNameOf(Top.depth)), Chained[Top.i])
       \/ ~HasKey(Keypad(PadNameOf(Top.depth)), Chained[Top.i + 1])
    /\ EnumerationPanicked(Top.depth, Chained[Top.i], Chained[Top.i + 1])
    /\ epc' = "panic"
    /\ spc' = IF spc = "run" THEN "panic" ELSE spc
    /\ UNCHANGED <<part2, input, idx, total>>
    /\ UNCHANGED <<pin, depth, max_depth, cache, len>>
    /\ UNCHANGED <<plan, shareVars, stack, misses>>

\* a bug: the recursive call is made with the depth of its caller
PathCallSameDepth ==
    /\ Running
    /\ Top.pc = "paths"
    /\ Top.j <= Len(Top.paths)
    /\ stack' = Append(stack, Frame(Top.paths[Top.j], Top.depth))
    /\ UNCHANGED <<solverVars, evalVars, pathVars, plan, shareVars, misses, enums>>

\* line 171: the next candidate is translated one keypad further up.  (A call
\* entered above max_depth never reaches max_depth: it is followed for
\* MaxExcess depths.)
PathCall ==
    /\ Running
    /\ Top.pc = "paths"
    /\ Top.j <= Len(Top.paths)
    /\ Top.depth < max_depth + MaxExcess
    /\ stack' = Append(stack, Frame(Top.paths[Top.j], Top.depth + 1))
    /\ UNCHANGED <<solverVars, evalVars, pathVars, plan, shareVars, misses, enums>>

\* lines 172-173: all candidates are translated, the window costs the least
PathsMin ==
    /\ Running
    /\ Top.pc = "paths"
    /\ Top.j > Len(Top.paths)
    /\ Top.lens # <<>>
    /\ stack' = [stack EXCEPT ![Len(stack)] = Summed(@, UMin(Top.lens))]
    /\ UNCHANGED <<solverVars, evalVars, pathVars, plan, shareVars, misses, enums>>

\* lines 176-179: all windows are mapped, the sum is stored and returned
CallInsert ==
    /\ Running
    /\ Top.pc = "window"
    /\ Top.i >= Len(Chained)
    /\ cache' = CacheInsert(cache, Top.depth, Top.pin, Top.sum)
    /\ Returns(Top.sum)
    /\ UNCHANGED <<pin, depth, max_depth>>
    /\ UNCHANGED <<solverVars, pathVars, plan, shareVars, misses, enums>>

\* a bug: the cache of the invocation before is used again
SolverBeginKeepsCache ==
    /\ spc \in {"idle", "done"}
    /\ plan # <<>>
    /\ part2' = Head(plan)
    /\ plan' = Tail(plan)
    /\ max_depth' = MaxDepthOf(Head(plan))
    /\ idx' = 0
    /\ total' = U(0)
    /\ spc' = "run"
    /\ epc' = "idle"
    /\ stack' = <<>>
    /\ misses' = <<>>
    /\ enums' = <<>>
    /\ UNCHANGED <<input, pin, depth, len, cache>>
    /\ UNCHANGED <<pathVars, shareVars>>

\* lines 38-43: the caller invokes solver, which starts with a new cache
SolverBegin ==
    /\ spc \in {"idle", "done"}
    /\ plan # <<>>
    /\ part2' = Head(plan)
    /\ plan' = Tail(plan)
    /\ max_depth' = MaxDepthOf(Head(plan))
    /\ cache' = EmptyCache
    /\ idx' = 0
    /\ total' = U(0)
    /\ spc' = "run"
    /\ epc' = "idle"
    /\ stack' = <<>>
    /\ misses' = <<>>
    /\ enums' = <<>>
    /\ UNCHANGED <<input, pin, depth, len>>
    /\ UNCHANGED <<pathVars, shareVars>>

\* lines 46-47: the closure calls find_shortest_len for the next pin
SolverEvaluate ==
    /\ spc = "run"
    /\ epc = "idle"
    /\ idx < Len(input)
    /\ pin' = input[idx + 1]
    /\ depth' = 0
    /\ epc' = "call"
    /\ stack' = <<Frame(input[idx + 1], 0)>>
    /\ UNCHANGED <<max_depth, cache, len>>
    /\ UNCHANGED <<solverVars, pathVars, plan, shareVars, misses, enums>>

\* lines 47-50: the value returned is multiplied by the numeric part of the
\* pin and added to the sum
SolverMultiply ==
    /\ spc = "run"
    /\ epc = "done"
    /\ NumericPart(pin).ok
    /\ total' = UAdd(total, UMul(len, NumericPart(pin).val))
    /\ idx' = idx + 1
    /\ epc' = "idle"
    /\ UNCHANGED <<part2, input, spc>>
    /\ UNCHANGED <<pin, depth, max_depth, cache, len>>
    /\ UNCHANGED <<pathVars, callVars, shareVars>>

\* line 48: the slice or the unwrap panics
SolverUnwrapPanic ==
    /\ spc = "run"
    /\ epc = "done"
    /\ ~NumericPart(pin).ok
    /\ spc' = "panic"
    /\ UNCHANGED <<part2, input, idx, total>>
    /\ UNCHANGED <<evalVars, pathVars, callVars, shareVars>>

----------------------------------------------------------------------------
(* The closure of solver (lines 46-47) for several pins at a time: each     *)
(* evaluation runs find_shortest_len on its own activations, all on one      *)
(* cache; a step of one evaluation is a step of find_shortest_len as above,  *)
(* with the lookup (line 156) and the insert (line 178) each taken at once.  *)

\* the evaluation of pin p about to make the call of line 47
Evaluation(p) == [pin |-> p, stack |-> <<Frame(p, 0)>>, pc |-> "call", len |-> U(0)]

\* the activation that is running in the evaluation e
TopOf(e) == evs[e].stack[Len(evs[e].stack)]

\* iter::once('A').chain(pin.chars()) of that activation (lines 161-162)
ChainedOf(e) == <<"A">> \o TopOf(e).pin

\* the running activation of e is replaced by f
Continued(e, f) == [evs EXCEPT ![e].stack[Len(evs[e].stack)] = f]

\* the running activation of e returns v, to the activation below it or to
\* the closure
ReturnedIn(e, v) ==
    IF Len(evs[e].stack) = 1
       THEN [evs EXCEPT ![e].stack = <<>>, ![e].pc = "done", ![e].len = v]
       ELSE [evs EXCEPT ![e].stack =
                [SubSeq(@, 1, Len(@) - 1) EXCEPT ![Len(@) - 1] = Resume(@, v)]]

RunningIn(e) == evs[e].pc = "call" /\ evs[e].stack # <<>>

\* what no step of an evaluation changes
SharedFrame ==
    /\ UNCHANGED <<pin, depth, max_depth, len, epc>>
    /\ UNCHANGED <<solverVars, pathVars, callVars>>

\* lines 156-158
SharedCached(e) ==
    /\ RunningIn(e)
    /\ TopOf(e).pc = "enter"
    /\ CacheGet(cache, TopOf(e).depth, TopOf(e).pin) # {}
    /\ evs' = ReturnedIn(e, CHOOSE v \in CacheGet(cache, TopOf(e).depth, TopOf(e).pin) : TRUE)
    /\ UNCHANGED <<cache, writes>>
    /\ SharedFrame

\* lines 156, 160-163
SharedBody(e) ==
    /\ RunningIn(e)
    /\ TopOf(e).pc = "enter"
    /\ CacheGet(cache, TopOf(e).depth, TopOf(e).pin) = {}
    /\ evs' = Continued(e, [TopOf(e) EXCEPT !.pc = "window"])
    /\ UNCHANGED <<cache, writes>>
    /\ SharedFrame

\* the next window of e has two keys of the keypad of the depth
SharedWindowOfKeys(e) ==
    /\ RunningIn(e)
    /\ TopOf(e).pc = "window"
    /\ TopOf(e).i < Len(ChainedOf(e))
    /\ HasKey(Keypad(PadNameOf(TopOf(e).depth)), ChainedOf(e)[TopOf(e).i])
    /\ HasKey(Keypad(PadNameOf(TopOf(e).depth)), ChainedOf(e)[TopOf(e).i + 1])

\* lines 165-167
SharedLeaf(e) ==
    /\ SharedWindowOfKeys(e)
    /\ TopOf(e).depth = max_depth
    /\ evs' = Continued(e, Summed(TopOf(e),
                  UMin(Lengths(PathsAt(TopOf(e).depth, ChainedOf(e)[TopOf(e).i],
                                       ChainedOf(e)[TopOf(e).i + 1])))))
    /\ UNCHANGED <<cache, writes>>
    /\ SharedFrame

\* lines 165, 168-171
SharedPaths(e) ==
    /\ SharedWindowOfKeys(e)
    /\ TopOf(e).depth # max_depth
    /\ evs' = Continued(e, [TopOf(e) EXCEPT
                  !.pc = "paths", !.j = 1, !.lens = <<>>,
                  !.paths = PathsAt(TopOf(e).depth, ChainedOf(e)[TopOf(e).i],
                                    ChainedOf(e)[TopOf(e).i + 1])])
    /\ UNCHANGED <<cache, writes>>
    /\ SharedFrame

\* line 165: get_paths panics, the evaluation ends
SharedPanic(e) ==
    /\ RunningIn(e)
    /\ TopOf(e).pc = "window"
    /\ TopOf(e).i < Len(ChainedOf(e))
    /\ \/ ~HasKey(Keypad(PadNameOf(TopOf(e).depth)), ChainedOf(e)[TopOf(e).i])
       \/ ~HasKey(Keypad(PadNameOf(TopOf(e).depth)), ChainedOf(e)[TopOf(e).i + 1])
    /\ evs' = [evs EXCEPT ![e].pc = "panic"]
    /\ UNCHANGED <<cache, writes>>
    /\ SharedFrame

\* line 171
SharedCall(e) ==
    /\ RunningIn(e)
    /\ TopOf(e).pc = "paths"
    /\ TopOf(e).j <= Len(TopOf(e).paths)
    /\ evs' = [evs EXCEPT ![e].stack =
                  Append(@, Frame(TopOf(e).paths[TopOf(e).j], TopOf(e).depth + 1))]
    /\ UNCHANGED <<cache, writes>>
    /\ SharedFrame

\* lines 172-173
SharedMin(e) ==
    /\ RunningIn(e)
    /\ TopOf(e).pc = "paths"
    /\ TopOf(e).j > Len(TopOf(e).paths)
    /\ TopOf(e).lens # <<>>
    /\ evs' = Continued(e, Summed(TopOf(e), UMin(TopOf(e).lens)))
    /\ UNCHANGED <<cache, writes>>
    /\ SharedFrame

\* the values written under the key k, and one more, v
Written(k, v) ==
    IF k \in DOMAIN writes THEN [writes EXCEPT ![k] = Append(@, v)]
    ELSE (k :> <<v>>) @@ writes

\* lines 176-179
SharedInsert(e) ==
    /\ RunningIn(e)
    /\ TopOf(e).pc = "window"
    /\ TopOf(e).i >= Len(ChainedOf(e))
    /\ cache' = CacheInsert(cache, TopOf(e).depth, TopOf(e).pin, TopOf(e).sum)
    /\ writes' = Written(<<TopOf(e).depth, TopOf(e).pin>>, TopOf(e).sum)
    /\ evs' = ReturnedIn(e, TopOf(e).sum)
    /\ SharedFrame

----------------------------------------------------------------------------
(* The specifications *)

\* the PINs of the example of the puzzle
ReferenceInput ==
    << <<"0", "2", "9", "A">>, <<"9", "8", "0", "A">>, <<"1", "7", "9", "A">>,
       <<"4", "5", "6", "A">>, <<"3", "7", "9", "A">> >>

\* lines a file may hold: well-formed PINs, an empty line, a line without
\* digits, lines that do not end in A, a line with a character that is no key
Lines ==
    { <<"0", "A">>, <<"2", "A">>, <<"0", "8", "A">>, <<"1", "7", "A">>,
      <<>>, <<"A">>, <<"2", "0">>, <<"1", "A", "3">>, <<"4", "+", "A">> }


SolverIdle ==
    /\ part2 = FALSE
    /\ input = <<>>
    /\ idx = 0
    /\ total = U(0)
    /\ spc = "idle"

EvalIdle ==
    /\ pin = <<>>
    /\ depth = 0
    /\ max_depth = 0
    /\ cache = EmptyCache
    /\ len = U(0)
    /\ epc = "idle"

CallsIdle ==
    /\ plan = <<>>
    /\ stack = <<>>
    /\ misses = <<>>
    /\ enums = <<>>

\* no evaluations on a shared cache
ShareIdle ==
    /\ evs = <<>>
    /\ writes = <<>>

PathsIdle ==
    /\ g_pad = "numeric"
    /\ first = "A"
    /\ second = "A"
    /\ q = <<>>
    /\ res = <<>>
    /\ gpc = "idle"

\* a call of get_paths on either keypad with any two characters
InitPaths ==
    /\ g_pad \in PadNames
    /\ first \in Symbols
    /\ second \in Symbols
    /\ q = <<>>
    /\ res = <<>>
    /\ gpc = "start"
    /\ SolverIdle
    /\ EvalIdle
    /\ CallsIdle
    /\ ShareIdle

NextPaths ==
    \/ GetPathsPanicFirst
    \/ GetPathsBegin
    \/ GetPathsPanicSecond
    \/ GetPathsEmit
    \/ GetPathsExpand
    \/ GetPathsReturn

SpecPaths == InitPaths /\ [][NextPaths]_vars

\* a call of find_shortest_len with an empty cache, at a depth of a chain of
\* at most MaxDepth directional keypads, with a sequence of any characters
InitEval ==
    /\ max_depth \in 0..MaxDepth
    /\ depth \in 0..max_depth
    /\ pin \in SeqsUpTo(DOMAIN PadOf(depth).keys \cup OtherSymbols, MaxPinLen)
                \cup {ReferenceInput[i] : i \in DOMAIN ReferenceInput}
    /\ cache = EmptyCache
    /\ len = U(0)
    /\ epc = "call"
    /\ SolverIdle
    /\ PathsIdle
    /\ CallsIdle
    /\ ShareIdle

NextEval ==
    \/ EvalReturn
    \/ EvalPanic

SpecEval == InitEval /\ [][NextEval]_vars

\* a run of solver on the example or on at most MaxPins lines.  With the long
\* chain the evaluation is 25 calls deep, and this specification, which takes
\* a call in one step, runs it on empty lines only.
InitSolver ==
    /\ part2 \in BOOLEAN
    /\ input \in IF part2 THEN SeqsUpTo({<<>>}, MaxPins)
                         ELSE {ReferenceInput} \cup SeqsUpTo(Lines, MaxPins)
    /\ idx = 0
    /\ total = U(0)
    /\ spc = "run"
    /\ pin = <<>>
    /\ depth = 0
    /\ max_depth = MaxDepthOf(part2)
    /\ cache = EmptyCache
    /\ len = U(0)
    /\ epc = "idle"
    /\ PathsIdle
    /\ CallsIdle
    /\ ShareIdle

NextSolver ==
    \/ SolverMap
    \/ SolverPanic
    \/ SolverReturn

Spec == InitSolver /\ [][NextSolver]_vars

\* the lines of the files solver is followed on call by call
CallLines ==
    { <<"0", "A">>, <<"0", "8", "A">>, <<>>, <<"A">>, <<"2", "0">>, <<"4", "+", "A">>,
      <<"1", "A", "3">> }

\* solver is invoked once with the short chain on at most MaxPins lines
InitRun ==
    /\ plan = <<FALSE>>
    /\ input \in SeqsUpTo(CallLines, MaxPins)
    /\ part2 = FALSE
    /\ idx = 0
    /\ total = U(0)
    /\ spc = "idle"
    /\ EvalIdle
    /\ stack = <<>>
    /\ misses = <<>>
    /\ enums = <<>>
    /\ PathsIdle
    /\ ShareIdle

\* find_shortest_len is called with an empty cache and any depth, also one
\* above max_depth
InitCall ==
    /\ max_depth \in 0..MaxDepth
    /\ depth \in 0..(max_depth + 1)
    /\ pin \in SeqsUpTo(DOMAIN PadOf(depth).keys \cup OtherSymbols, MaxPinLen)
    /\ cache = EmptyCache
    /\ len = U(0)
    /\ epc = "call"
    /\ stack = <<Frame(pin, depth)>>
    /\ plan = <<>>
    /\ misses = <<>>
    /\ enums = <<>>
    /\ SolverIdle
    /\ PathsIdle
    /\ ShareIdle

\* how solver is invoked: by main (lines 33-34) with part2 = false and then
\* with part2 = true, by a test with one of the two (lines 206-217)
Callers == { <<FALSE, TRUE>>, <<FALSE>>, <<TRUE>> }

\* the files solver is followed on with the long chain: the example, no line,
\* a line without a number, a line with a character that is no key
LongInputs == { ReferenceInput, <<>>, << <<"A">> >>, << <<"4", "+", "A">> >> }

\* a caller invokes solver on a file
InitMain ==
    /\ plan \in Callers
    /\ input \in LongInputs
    /\ part2 = FALSE
    /\ idx = 0
    /\ total = U(0)
    /\ spc = "idle"
    /\ EvalIdle
    /\ stack = <<>>
    /\ misses = <<>>
    /\ enums = <<>>
    /\ PathsIdle
    /\ ShareIdle

InitCalls == InitRun \/ InitCall \/ InitMain

NextCalls ==
    \/ SolverBegin
    \/ SolverEvaluate
    \/ CallCached
    \/ CallBody
    \/ WindowLeaf
    \/ WindowPaths
    \/ WindowPanic
    \/ PathCall
    \/ PathsMin
    \/ CallInsert
    \/ SolverMultiply
    \/ SolverUnwrapPanic
    \/ SolverReturn

SpecCalls == InitCalls /\ [][NextCalls]_vars

\* the program is sequential: a step that can be taken is taken
SpecCallsFair == SpecCalls /\ WF_vars(NextCalls)

\* get_paths called with any two characters, and the runs and calls above
InitKeys == InitPaths \/ InitCalls

NextKeys == NextPaths \/ NextCalls

SpecKeys == InitKeys /\ [][NextKeys]_vars

\* the pins that are evaluated at a time
SharedLines == { <<"0", "A">>, <<"0", "0", "A">>, <<"A">>, <<"4", "+", "A">> }

\* two evaluations on one cache, empty at the start, through a chain of at
\* most MaxDepth directional keypads
InitShared ==
    /\ max_depth \in 0..MaxDepth
    /\ \E a \in SharedLines, b \in SharedLines : evs = <<Evaluation(a), Evaluation(b)>>
    /\ writes = <<>>
    /\ cache = EmptyCache
    /\ pin = <<>>
    /\ depth = 0
    /\ len = U(0)
    /\ epc = "idle"
    /\ SolverIdle
    /\ PathsIdle
    /\ CallsIdle

NextShared ==
    \E e \in DOMAIN evs :
        \/ SharedCached(e)
        \/ SharedBody(e)
        \/ SharedLeaf(e)
        \/ SharedPaths(e)
        \/ SharedPanic(e)
        \/ SharedCall(e)
        \/ SharedMin(e)
        \/ SharedInsert(e)

SpecShared == InitShared /\ [][NextShared]_vars

----------------------------------------------------------------------------
(* What the properties below are stated with *)

Abs(n) == IF n < 0 THEN -n ELSE n

\* the number of single moves between two positions of a grid
Manhattan(a, b) == Abs(a[1] - b[1]) + Abs(a[2] - b[2])

Moves == {"<", "^", ">", "v"}

\* the position a robot arm at p points at after the key m is pressed
Step(p, m) ==
    CASE m = "<" -> <<p[1], p[2] - 1>>
      [] m = ">" -> <<p[1], p[2] + 1>>
      [] m = "^" -> <<p[1] - 1, p[2]>>
      [] m = "v" -> <<p[1] + 1, p[2]>>
      [] OTHER -> p

\* the positions the arm points at while the keys of path are pressed from p
RECURSIVE Walk(_, _)
Walk(p, path) ==
    IF path = <<>> THEN <<>>
    ELSE <<Step(p, Head(path))>> \o Walk(Step(p, Head(path)), Tail(path))

\* every shortest walk from p to t that never points at the gap of the keypad
RECURSIVE ShortestWalks(_, _, _)
ShortestWalks(pad, p, t) ==
    IF p = t THEN {<<>>}
    ELSE UNION {{<<m>> \o w : w \in ShortestWalks(pad, Step(p, m), t)} :
                m \in {n \in Moves : /\ Manhattan(Step(p, n), t) < Manhattan(p, t)
                                     /\ Step(p, n) # pad.forbidden}}

\* the number of changes of direction of a walk
Turns(w) == Cardinality({i \in 1..(Len(w) - 1) : w[i] # w[i + 1]})

Range(f) == {f[i] : i \in DOMAIN f}

\* the call of get_paths is between two keys of its keypad
BetweenKeys == HasKey(Keypad(g_pad), first) /\ HasKey(Keypad(g_pad), second)

FromPos == Keypad(g_pad).keys[first]
ToPos == Keypad(g_pad).keys[second]

----------------------------------------------------------------------------
(* C4 *)

\* C4, as stated: get_paths returns every shortest walk between the two keys
\* that avoids the gap, each followed by A, and nothing else.
C4_AllShortestWalks ==
    (gpc = "done" /\ BetweenKeys) =>
        Range(res) = {w \o <<"A">> : w \in ShortestWalks(Keypad(g_pad), FromPos, ToPos)}

\* C4, amended: get_paths returns exactly the shortest walks avoiding the gap
\* that change direction at most once, each followed by A.
C4_ShortestWalksOfOneTurn ==
    (gpc = "done" /\ BetweenKeys) =>
        Range(res) = {w \o <<"A">> :
                        w \in {v \in ShortestWalks(Keypad(g_pad), FromPos, ToPos) :
                                 Turns(v) <= 1}}

\* a call has returned two paths between keys that more than two shortest
\* walks connect
C4_Witness ==
    /\ gpc = "done"
    /\ BetweenKeys
    /\ Len(res) = 2
    /\ Cardinality(ShortestWalks(Keypad(g_pad), FromPos, ToPos)) > 2

----------------------------------------------------------------------------
(* C5 *)

\* C5: between two keys, no position in the queue of get_paths is the gap, and
\* the walk of a returned path from the first key never points at the gap.
C5_GapNeverVisited ==
    BetweenKeys =>
        /\ \A i \in DOMAIN q : q[i].pos # Keypad(g_pad).forbidden
        /\ \A i \in DOMAIN res :
              Keypad(g_pad).forbidden \notin Range(Walk(FromPos, res[i]))

\* a call has returned between two keys of different rows and columns, one in
\* the row and one in the column of the gap: one of the two corners is the gap
C5_Witness ==
    /\ gpc = "done"
    /\ BetweenKeys
    /\ FromPos[1] # ToPos[1]
    /\ FromPos[2] # ToPos[2]
    /\ Keypad(g_pad).forbidden \in {<<FromPos[1], ToPos[2]>>, <<ToPos[1], FromPos[2]>>}
    /\ Len(res) = 1

----------------------------------------------------------------------------
(* C6 *)

\* C6: every path get_paths returns between two keys is one longer than the
\* Manhattan distance of the keys, and each of its moves brings the arm one
\* step closer to the target.
C6_PathsAreMinimal ==
    (gpc = "done" /\ BetweenKeys) =>
        \A i \in DOMAIN res :
            LET w == <<FromPos>> \o Walk(FromPos, res[i])
            IN  /\ Len(res[i]) = Manhattan(FromPos, ToPos) + 1
                /\ \A k \in 1..(Len(res[i]) - 1) :
                      /\ res[i][k] \in Moves
                      /\ Manhattan(w[k + 1], ToPos) < Manhattan(w[k], ToPos)
                /\ res[i][Len(res[i])] = "A"

\* a call has returned two paths of four moves and the activation
C6_Witness ==
    /\ gpc = "done"
    /\ BetweenKeys
    /\ Len(res) = 2
    /\ Manhattan(FromPos, ToPos) = 4
    /\ \A i \in DOMAIN res : Len(res[i]) = 5

----------------------------------------------------------------------------
(* The least number of presses, by definition *)

\* the sum of the entries of the table tbl for the windows of s from the i-th
RECURSIVE WindowSum(_, _, _)
WindowSum(tbl, s, i) ==
    IF i >= Len(s) THEN 0 ELSE tbl[<<s[i], s[i + 1]>>] + WindowSum(tbl, s, i + 1)

Least(S) == CHOOSE m \in S : \A x \in S : m <= x

\* The least number of presses of the operator that move the arm over the
\* keypad pad from key a to key b and press b, when k directional keypads
\* stand between that arm and the operator, and above gives these numbers for
\* an arm one keypad nearer to the operator: with k = 0 the operator steers
\* the arm directly; else any shortest walk that avoids the gap is typed,
\* starting from A and ending with A, on the directional keypad above.
Presses(pad, a, b, k, above) ==
    IF k = 0 THEN Manhattan(pad.keys[a], pad.keys[b]) + 1
    ELSE Least({WindowSum(above, <<"A">> \o w \o <<"A">>, 1) :
                  w \in ShortestWalks(pad, pad.keys[a], pad.keys[b])})

\* Presses for the pairs of keys of the directional keypad, as a table
RECURSIVE PressTable(_, _, _)
PressTable(pairs, k, above) ==
    IF pairs = {} THEN <<>>
    ELSE LET p == CHOOSE x \in pairs : TRUE
         IN  (p :> Presses(directional, p[1], p[2], k, above))
                @@ PressTable(pairs \ {p}, k, above)

DirectionalPairs == (DOMAIN directional.keys) \X (DOMAIN directional.keys)

\* the tables of the directional keypads with 0, 1, ..., k keypads above them
RECURSIVE PressTables(_)
PressTables(k) ==
    IF k = 0 THEN <<PressTable(DirectionalPairs, 0, <<>>)>>
    ELSE LET lower == PressTables(k - 1)
         IN  Append(lower, PressTable(DirectionalPairs, k, lower[k]))

\* the least number of presses of the operator that make the robot at the
\* numeric keypad type code through a chain of n directional keypads
RECURSIVE LeastFrom(_, _, _, _)
LeastFrom(code, i, n, above) ==
    IF i >= Len(code) THEN 0
    ELSE Presses(numeric, code[i], code[i + 1], n, above)
            + LeastFrom(code, i + 1, n, above)

LeastPresses(code, n) ==
    LeastFrom(<<"A">> \o code, 1, n, IF n = 0 THEN <<>> ELSE PressTables(n - 1)[n])

\* the cost find_shortest_len returns for a sequence when called with an empty
\* cache
Cost(p, d, maxd) == FindShortestLen(p, d, maxd, EmptyCache).len

----------------------------------------------------------------------------
(* C2 *)

\* C2: with max_depth = 2, find_shortest_len at depth 0 with an empty cache
\* returns 68 for 029A, 60 for 980A and 68 for 179A, and the products with the
\* numeric parts are 1972, 58800 and 12172.
C2_ReferenceCodes ==
    (epc # "call" /\ depth = 0 /\ max_depth = 2) =>
        /\ pin = <<"0", "2", "9", "A">> =>
              /\ epc = "done"
              /\ len = U(68)
              /\ UMul(len, NumericPart(pin).val) = U(1972)
        /\ pin = <<"9", "8", "0", "A">> =>
              /\ epc = "done"
              /\ len = U(60)
              /\ UMul(len, NumericPart(pin).val) = U(58800)
        /\ pin = <<"1", "7", "9", "A">> =>
              /\ epc = "done"
              /\ len = U(68)
              /\ UMul(len, NumericPart(pin).val) = U(12172)

\* the call for 179A has returned
C2_Witness ==
    /\ epc = "done"
    /\ depth = 0
    /\ max_depth = 2
    /\ pin = <<"1", "7", "9", "A">>
    /\ len = U(68)

----------------------------------------------------------------------------
(* C3 *)

\* C3: for a code of keys of the numeric keypad, find_shortest_len at depth 0
\* returns the least number of presses over all shortest walks at every
\* keypad of the chain, the walks get_paths leaves out included.
C3_CostIsLeast ==
    (epc = "done" /\ depth = 0) => len = U(LeastPresses(pin, max_depth))

\* a call has returned for a code with a pair of keys that more shortest
\* walks connect than get_paths returns, through a chain of two keypads
C3_Witness ==
    /\ epc = "done"
    /\ depth = 0
    /\ max_depth = 2
    /\ Len(pin) = 2
    /\ Cardinality(ShortestWalks(numeric, numeric.keys[pin[1]], numeric.keys[pin[2]]))
          > Len(GetPaths(numeric, pin[1], pin[2]))

----------------------------------------------------------------------------
(* C8 *)

\* C8: the cost of a code through a chain is at least its cost through any
\* shorter chain.
C8_Monotone ==
    (epc = "done" /\ depth = 0) =>
        \A n \in 0..max_depth : ULeq(Cost(pin, 0, n), len)

\* a call has returned for a chain of two keypads with a cost above the cost
\* through one keypad, which is above the cost through none
C8_Witness ==
    /\ epc = "done"
    /\ depth = 0
    /\ max_depth = 2
    /\ Len(pin) = 2
    /\ ~ULeq(len, Cost(pin, 0, 1))
    /\ ~ULeq(Cost(pin, 0, 1), Cost(pin, 0, 0))

----------------------------------------------------------------------------
(* C10 *)

\* C10: at every depth of every chain, find_shortest_len of the sequence "A"
\* returns 1.
C10_RestingSymbol ==
    (epc # "call" /\ pin = <<"A">>) => (epc = "done" /\ len = U(1))

\* the call for "A" on a directional keypad with another one above it has
\* returned
C10_Witness ==
    /\ epc = "done"
    /\ pin = <<"A">>
    /\ depth = 1
    /\ max_depth = 2
    /\ len = U(1)

----------------------------------------------------------------------------
(* C1 *)

\* C1: solver with the short chain returns 126384 for the example.
C1_ExampleTotal ==
    (input = ReferenceInput /\ ~part2) =>
        /\ spc # "panic"
        /\ spc = "done" => total = U(126384)

\* the run on the example with the short chain has returned
C1_Witness ==
    /\ input = ReferenceInput
    /\ ~part2
    /\ spc = "done"
    /\ idx = 5

----------------------------------------------------------------------------
(* C7 *)

IsDigit(c) == c \in Digits

\* the digits of a code read as a decimal number
DigitsValue(code) ==
    LET ds == SelectSeq(code, IsDigit) IN Decimal(ds, Len(ds))

\* the sum over the codes from the i-th on of the cost of the code times the
\* value of its digits
RECURSIVE SumOfProducts(_, _, _)
SumOfProducts(codes, i, maxd) ==
    IF i > Len(codes) THEN U(0)
    ELSE UAdd(UMul(Cost(codes[i], 0, maxd), DigitsValue(codes[i])),
              SumOfProducts(codes, i + 1, maxd))

\* C7, as stated: what solver returns is the sum over the codes of the cost of
\* the code at depth 0 times the value of the digits of the code, 0 for no
\* codes.
C7_SumOfProducts ==
    spc = "done" => total = SumOfProducts(input, 1, max_depth)

----------------------------------------------------------------------------
(* C11 *)

\* every value a nested call has returned to an activation is the value the
\* cache holds under the key of that call
ReturnedAreCached ==
    \A n \in DOMAIN stack :
        \A m \in DOMAIN stack[n].lens :
            /\ <<stack[n].depth + 1, stack[n].paths[m]>> \in DOMAIN cache
            /\ cache[<<stack[n].depth + 1, stack[n].paths[m]>>] = stack[n].lens[m]

\* C11, as stated: in one run get_paths enumerates the candidates of a pair of
\* keys at a depth only once.
C11_PairsOnce ==
    \A k \in DOMAIN enums : enums[k] = 1

\* C11, amended: in one run the body of find_shortest_len runs only once for a
\* (depth, sequence), and every call for that key, the first or a later one,
\* returns the value the cache holds for it.
C11_SequencesOnce ==
    /\ \A k \in DOMAIN misses : misses[k] = 1
    /\ ReturnedAreCached
    /\ epc = "done" => /\ <<depth, pin>> \in DOMAIN cache
                       /\ cache[<<depth, pin>>] = len

\* a run on a file with the same code on two lines has returned: the second
\* evaluation of the code took the value from the cache, and a pair of keys
\* was enumerated more than once
C11_Witness ==
    /\ spc = "done"
    /\ idx = 2
    /\ input[1] = input[2]
    /\ misses[<<0, input[1]>>] = 1
    /\ \E k \in DOMAIN enums : enums[k] > 1
    /\ len = cache[<<0, input[2]>>]

----------------------------------------------------------------------------
(* C12 *)

\* C12, as stated: a call of find_shortest_len with a depth above max_depth
\* ends as a fault at that call: it returns no value, it does not run the body
\* as if the depth were max_depth, and it makes no recursive call.
C12_DepthAboveMaxFaults ==
    (epc # "idle" /\ depth > max_depth) =>
        /\ epc # "done"
        /\ Len(stack) <= 1
        /\ \A n \in DOMAIN stack : stack[n].pc = "enter"

----------------------------------------------------------------------------
(* C13 *)

\* the line has a character that is no key of the numeric keypad
HasUnknownSymbol(line) == \E n \in DOMAIN line : line[n] \notin NumericSymbols

\* C13: a call of get_paths with a first or second character that is no key
\* of its keypad never returns and yields no path (it stops with the panic of
\* the index), and solver never gets past a line with a character outside
\* 0-9 and A, and returns no total for a file with such a line.
C13_UnknownSymbolRejected ==
    /\ (gpc # "idle" /\ ~BetweenKeys) =>
          /\ gpc # "done"
          /\ res = <<>>
          /\ gpc = "loop" => q # <<>>
    /\ \A i \in DOMAIN input :
          HasUnknownSymbol(input[i]) => (idx < i /\ spc # "done")

\* solver has panicked on the second line of a file, 4+A, when get_paths was
\* called with the key 4 and the character +, after it had added the product
\* of the first line to the sum
C13_Witness ==
    /\ spc = "panic"
    /\ idx = 1
    /\ input[2] = <<"4", "+", "A">>
    /\ total # U(0)
    /\ gpc = "panic"
    /\ g_pad = "numeric"
    /\ first = "4"
    /\ second = "+"
    /\ res = <<>>

----------------------------------------------------------------------------
(* C14 *)

\* C14: a call of find_shortest_len with the empty sequence at a depth up to
\* max_depth returns 0; it does not panic, maps no window (so it enumerates
\* no path) and makes no recursive call.
C14_EmptySequence ==
    (epc # "idle" /\ pin = <<>> /\ depth <= max_depth) =>
        /\ epc # "panic"
        /\ epc = "done" => len = U(0)
        /\ Len(stack) <= 1
        /\ \A n \in DOMAIN stack : stack[n].pc \in {"enter", "window"} /\ stack[n].i = 1
        /\ spc = "idle" => (enums = <<>> /\ gpc = "idle")

\* the call with the empty sequence at depth 1 of a chain of two keypads has
\* returned 0 and has left one entry in the cache
C14_Witness ==
    /\ epc = "done"
    /\ spc = "idle"
    /\ pin = <<>>
    /\ depth = 1
    /\ max_depth = 2
    /\ len = U(0)
    /\ DOMAIN cache = {<<1, <<>>>>}
    /\ enums = <<>>

----------------------------------------------------------------------------
(* C15 *)

\* the activations below a call made with a depth up to max_depth: the
\* outermost has the depth of the call, each other one the depth of its caller
\* plus one, and none a depth above max_depth
DepthsIncrease ==
    depth <= max_depth =>
        /\ \A n \in DOMAIN stack :
              /\ stack[n].depth <= max_depth
              /\ stack[n].depth = depth + n - 1
        /\ Len(stack) <= max_depth + 1

\* C15: every call of find_shortest_len with a depth up to max_depth comes to
\* an end; each recursive call has the depth of its caller plus one, no call
\* has a depth above max_depth, and at most max_depth + 1 calls are nested.
C15_Terminates ==
    /\ []DepthsIncrease
    /\ (epc = "call" /\ depth <= max_depth) ~> (epc # "call")

\* with the long chain, max_depth + 1 = 26 calls are nested
C15_Witness ==
    /\ epc = "call"
    /\ part2
    /\ max_depth = 25
    /\ Len(stack) = 26
    /\ Top.depth = 25

----------------------------------------------------------------------------
(* C16 *)

\* the usize is below 10^18, which is below 2^64
BelowU64(v) == v.hi < Base

\* C16: solver with the long chain returns 154115708116294 for the example;
\* neither the sum nor a cost or a product that is computed on the way
\* reaches 2^64, and the cost of each code is above its cost through the
\* short chain.
C16_LongChainTotal ==
    (part2 /\ input = ReferenceInput /\ spc # "idle") =>
        /\ spc # "panic"
        /\ spc = "done" => total = [hi |-> 154115, lo |-> 708116294]
        /\ BelowU64(total)
        /\ \A k \in DOMAIN cache : BelowU64(cache[k])
        /\ \A n \in DOMAIN stack :
              /\ BelowU64(stack[n].sum)
              /\ \A m \in DOMAIN stack[n].lens : BelowU64(stack[n].lens[m])
        /\ epc = "done" =>
              /\ BelowU64(UMul(len, NumericPart(pin).val))
              /\ ~ULeq(len, Cost(pin, 0, 2))

\* the run on the example with the long chain has returned
C16_Witness ==
    /\ part2
    /\ max_depth = 25
    /\ input = ReferenceInput
    /\ spc = "done"
    /\ idx = 5
    /\ total.hi = 154115

----------------------------------------------------------------------------
(* C17 *)

\* the rows of the grid that keypad n is laid out on; both have three columns
GridRows(n) == IF n = "numeric" THEN 4 ELSE 2

\* the corner that the gap of keypad n is at: bottom left, or top left
GapCorner(n) == IF n = "numeric" THEN <<GridRows(n) - 1, 0>> ELSE <<0, 0>>

\* the layout of keypad n is well formed
WellFormed(n) ==
    /\ \A a, b \in DOMAIN Keypad(n).keys :
          Keypad(n).keys[a] = Keypad(n).keys[b] => a = b
    /\ \A a \in DOMAIN Keypad(n).keys :
          /\ Keypad(n).keys[a][1] \in 0..(GridRows(n) - 1)
          /\ Keypad(n).keys[a][2] \in 0..2
          /\ Keypad(n).keys[a] # Keypad(n).forbidden
    /\ Keypad(n).forbidden = GapCorner(n)

\* C17: the keys of a keypad are at distinct positions of its grid (4 x 3 for
\* the numeric keypad, 2 x 3 for the directional one), the forbidden position
\* is the position of no key, and it is the bottom left corner of the numeric
\* keypad and the top left corner of the directional keypad.
C17_KeypadLayouts ==
    g_pad \in PadNames => WellFormed(g_pad)

\* get_paths has returned the paths between two keys of the directional
\* keypad that are next to its gap
C17_Witness ==
    /\ g_pad = "directional"
    /\ gpc = "done"
    /\ first = "<"
    /\ second = "^"
    /\ res # <<>>

----------------------------------------------------------------------------
(* C18 *)

\* the sum of the entries of the table tbl for the windows of s from the i-th
RECURSIVE WindowCost(_, _, _)
WindowCost(tbl, s, i) ==
    IF i >= Len(s) THEN U(0)
    ELSE UAdd(tbl[s[i]][s[i + 1]], WindowCost(tbl, s, i + 1))

\* the recurrence of lines 161-176 for the sequence s, when tbl gives the
\* value of the closure (lines 164-175) for each window
SequenceCost(tbl, s) == WindowCost(tbl, <<"A">> \o s, 1)

\* the value of the closure of lines 164-175 for the window (a, b) of keypad
\* n: line 167 at the leaf, where nothing is below, and else lines 169-174,
\* when below gives the values of the closure at the next depth
ClosureAt(n, a, b, below) ==
    IF below = <<>> THEN UMin(Lengths(PathTable[n][a][b]))
    ELSE UMin([i \in DOMAIN PathTable[n][a][b] |->
                  SequenceCost(below, PathTable[n][a][b][i])])

\* the values of the closure for the windows (a, b) with b in bs
RECURSIVE ClosureRow(_, _, _, _)
ClosureRow(n, a, bs, below) ==
    IF bs = {} THEN <<>>
    ELSE LET b == CHOOSE x \in bs : TRUE
         IN  (b :> ClosureAt(n, a, b, below)) @@ ClosureRow(n, a, bs \ {b}, below)

\* the values of the closure for the windows (a, b) with a in as
RECURSIVE ClosureRows(_, _, _)
ClosureRows(n, as, below) ==
    IF as = {} THEN <<>>
    ELSE LET a == CHOOSE x \in as : TRUE
         IN  (a :> ClosureRow(n, a, DOMAIN Keypad(n).keys, below))
                @@ ClosureRows(n, as \ {a}, below)

\* the values of the closure for the windows of the directional keypad, at
\* the leaf and above it: the k-th table is for the depth that has k - 1
\* depths below it; Deepen adds the tables of n more depths
RECURSIVE Deepen(_, _)
Deepen(tables, n) ==
    IF n = 0 THEN tables
    ELSE Deepen(Append(tables, ClosureRows("directional", DOMAIN directional.keys,
                                           tables[Len(tables)])),
                n - 1)

ClosureTables ==
    Deepen(<<ClosureRows("directional", DOMAIN directional.keys, <<>>)>>,
           MaxDepthOf(TRUE) - 1)

\* the sum of the values of the closure for the windows of s from the i-th,
\* on the numeric keypad (line 160: depth 0)
RECURSIVE NumericCost(_, _, _)
NumericCost(s, i, below) ==
    IF i >= Len(s) THEN U(0)
    ELSE UAdd(ClosureAt("numeric", s[i], s[i + 1], below), NumericCost(s, i + 1, below))

\* the value of the recurrence of find_shortest_len for the sequence s at
\* depth d, worked out without a cache of sequences
Recurrence(s, d, maxd) ==
    IF d = 0
    THEN NumericCost(<<"A">> \o s, 1, IF maxd = 0 THEN <<>> ELSE ClosureTables[maxd])
    ELSE SequenceCost(ClosureTables[maxd - d + 1], s)

\* C18: every entry (d, s) -> v of the cache has the value v of the recurrence
\* for s at depth d under max_depth, and the value that find_shortest_len
\* returns for a sequence is the value of the recurrence, whatever was
\* evaluated with the same cache before.
C18_CacheSound ==
    (epc \in {"call", "done"} /\ depth <= max_depth) =>
        /\ \A k \in DOMAIN cache : cache[k] = Recurrence(k[2], k[1], max_depth)
        /\ epc = "done" => len = Recurrence(pin, depth, max_depth)

\* the second code of a run has been evaluated with the cache that the first,
\* another code, has filled
C18_Witness ==
    /\ spc = "run"
    /\ idx = 1
    /\ epc = "done"
    /\ Len(input) = 2
    /\ input[1] # input[2]
    /\ pin = input[2]
    /\ \E k \in DOMAIN cache : k[1] = 0 /\ k[2] = input[1]

----------------------------------------------------------------------------
(* C19 *)

\* the step is the start of an invocation of solver
SolverStarts == spc # "run" /\ spc' = "run"

\* the step keeps every entry of the cache, with its value
EntriesKept == \A k \in DOMAIN cache : k \in DOMAIN cache' /\ cache'[k] = cache[k]

\* C19: every invocation of solver starts with an empty cache, whatever the
\* invocation before it (with another max_depth) has left, and no other step
\* removes an entry of the cache or changes its value.
C19_CacheLifecycle ==
    [][IF SolverStarts THEN cache' = EmptyCache ELSE EntriesKept]_vars

\* the second invocation of solver by main, with the long chain, has started
\* with an empty cache; the first has evaluated the codes up to the last, of
\* which the pin and the returned length are still seen
C19_Witness ==
    /\ plan = <<>>
    /\ part2
    /\ max_depth = MaxDepthOf(TRUE)
    /\ spc = "run"
    /\ idx = 0
    /\ epc = "idle"
    /\ input = ReferenceInput
    /\ pin = input[Len(input)]
    /\ len = U(64)
    /\ cache = EmptyCache

----------------------------------------------------------------------------
(* C20 *)

\* An evaluator of the recurrence that caches by (depth, pair of keys): each
\* operator returns a length and the cache it leaves.

\* v + r
AddTo(v, r) == [len |-> UAdd(v, r.len), cache |-> r.cache]

\* min(v, r)
MinWith(v, r) == [len |-> IF ULeq(v, r.len) THEN v ELSE r.len, cache |-> r.cache]

\* the minimum r of the pair (a, b) at depth d is stored
StorePair(a, b, d, r) == [len |-> r.len, cache |-> (<<d, a, b>> :> r.len) @@ r.cache]

RECURSIVE PairMemo(_, _, _, _, _)
RECURSIVE SeqMemo(_, _, _, _, _)
RECURSIVE BestMemo(_, _, _, _, _)

SeqAfter(s, i, d, maxd, r) == AddTo(r.len, SeqMemo(s, i + 1, d, maxd, r.cache))

\* the sum of the minima of the windows of s from the i-th
SeqMemo(s, i, d, maxd, c) ==
    IF i >= Len(s) THEN [len |-> U(0), cache |-> c]
    ELSE SeqAfter(s, i, d, maxd, PairMemo(s[i], s[i + 1], d, maxd, c))

BestAfter(paths, j, d, maxd, r) == MinWith(r.len, BestMemo(paths, j + 1, d, maxd, r.cache))

\* the least sum of a candidate of paths from the j-th, at depth d
BestMemo(paths, j, d, maxd, c) ==
    IF j = Len(paths) THEN SeqMemo(<<"A">> \o paths[j], 1, d, maxd, c)
    ELSE BestAfter(paths, j, d, maxd, SeqMemo(<<"A">> \o paths[j], 1, d, maxd, c))

\* the minimum of the pair (a, b) at depth d
PairMemo(a, b, d, maxd, c) ==
    IF <<d, a, b>> \in DOMAIN c THEN [len |-> c[<<d, a, b>>], cache |-> c]
    ELSE IF d = maxd
         THEN StorePair(a, b, d, [len |-> UMin(Lengths(PathsAt(d, a, b))), cache |-> c])
         ELSE StorePair(a, b, d, BestMemo(PathsAt(d, a, b), 1, d + 1, maxd, c))

\* the sum over the pairs of 'A' followed by s, with a cache of pairs that is
\* empty at the start
PairLevelCost(s, d, maxd) == SeqMemo(<<"A">> \o s, 1, d, maxd, <<>>).len

\* the sum of the costs of the first n symbols of s and of the others
SplitCost(s, n, d, maxd) ==
    UAdd(Cost(SubSeq(s, 1, n), d, maxd), Cost(SubSeq(s, n + 1, Len(s)), d, maxd))

\* C20: what find_shortest_len returns for a sequence at a depth up to
\* max_depth is the sum, over the pairs of 'A' followed by the sequence, of
\* the minimum that an evaluator with a cache keyed by (depth, pair) returns,
\* and the cost of a sequence is the sum of the costs of its two parts when
\* the first part is empty or ends in 'A'.
C20_PairLevelEquivalent ==
    (epc = "done" /\ depth <= max_depth) =>
        /\ len = PairLevelCost(pin, depth, max_depth)
        /\ \A n \in 0..Len(pin) :
              (n = 0 \/ pin[n] = "A") => len = SplitCost(pin, n, depth, max_depth)

\* a call above the leaf depth has returned for a sequence that has an 'A'
\* before its last key
C20_Witness ==
    /\ epc = "done"
    /\ depth = 1
    /\ max_depth = 2
    /\ Len(pin) = 2
    /\ pin[1] = "A"
    /\ pin[2] = "<"
    /\ len = SplitCost(pin, 1, depth, max_depth)

----------------------------------------------------------------------------
(* C21 *)

\* the activations of a call that solver made: the outermost is the call
\* over the code, at depth 0, and the others are at depths from 1 on
OnlyOutermostAtDepthZero ==
    (spc = "run" /\ epc = "call") =>
        /\ stack # <<>>
        /\ depth = 0
        /\ pin = input[idx + 1]
        /\ stack[1].depth = 0
        /\ stack[1].pin = pin
        /\ \A n \in DOMAIN stack : n > 1 => stack[n].depth >= 1

\* a step in which get_paths is called is made on the numeric keypad by the
\* outermost activation and on the directional keypad by every other
KeypadByActivation ==
    (spc = "run" /\ enums' # enums) =>
        /\ gpc' \in {"done", "panic"}
        /\ g_pad' = IF Len(stack) = 1 THEN "numeric" ELSE "directional"
        /\ g_pad' = IF Top.depth = 0 THEN "numeric" ELSE "directional"

\* C21: in every call that is reached from solver, depth 0 is evaluated on
\* the numeric keypad and only the outermost call, over a code, has depth 0;
\* every recursive call has a depth of 1 or more and is evaluated on the
\* directional keypad.
C21_KeypadByDepth ==
    /\ []OnlyOutermostAtDepthZero
    /\ [][KeypadByActivation]_vars

\* in a run of solver, a recursive call two keypads up has called get_paths
\* on the directional keypad, after the call over the code did on the numeric
C21_Witness ==
    /\ spc = "run"
    /\ epc = "call"
    /\ Len(stack) = 3
    /\ Top.depth = 2
    /\ g_pad = "directional"
    /\ gpc = "done"
    /\ <<0, "A", pin[1]>> \in DOMAIN enums
    /\ <<2, first, second>> \in DOMAIN enums

----------------------------------------------------------------------------
(* C22 *)

\* the sequence is a walk, of moves only, and then one press of A
WalkThenPress(s) ==
    /\ s # <<>>
    /\ s[Len(s)] = "A"
    /\ \A i \in 1..(Len(s) - 1) : s[i] \in Moves

\* C22: every sequence that get_paths returns is zero or more of the moves
\* ^, v, <, > and then exactly one A, its last symbol; so every sequence that
\* is passed to a recursive call of find_shortest_len is of keys of the
\* directional keypad and ends in A (where the next sequence starts), and no
\* lookup of a key panics in a recursive call.
C22_WalkThenPress ==
    /\ \A i \in DOMAIN res : WalkThenPress(res[i])
    /\ \A n \in DOMAIN stack :
          /\ \A i \in DOMAIN stack[n].paths : WalkThenPress(stack[n].paths[i])
          /\ n > 1 =>
                /\ WalkThenPress(stack[n].pin)
                /\ \A i \in DOMAIN stack[n].pin : HasKey(directional, stack[n].pin[i])
                /\ stack[n].depth >= 1
    /\ (epc = "panic" /\ stack # <<>>) => Len(stack) = 1

\* a recursive call translates a walk of two moves and a press, which
\* get_paths returned as the second of two sequences
C22_Witness ==
    /\ Len(stack) >= 2
    /\ Len(Top.pin) = 3
    /\ Top.pin[1] # Top.pin[2]
    /\ Top.pin[3] = "A"
    /\ stack[Len(stack) - 1].j = 2
    /\ stack[Len(stack) - 1].paths[2] = Top.pin
    /\ gpc = "done"
    /\ res # <<>>

----------------------------------------------------------------------------
(* C23 *)

\* C23: for a key k of either keypad, get_paths(k, k) returns exactly one
\* sequence, which is the single symbol A.
C23_SameKey ==
    /\ (gpc = "done" /\ first = second) => res = << <<"A">> >>
    /\ g_pad \in PadNames =>
          \A k \in DOMAIN Keypad(g_pad).keys : PathTable[g_pad][k][k] = << <<"A">> >>

\* get_paths has returned for the key 5 of the numeric keypad, as both keys
C23_Witness ==
    /\ gpc = "done"
    /\ g_pad = "numeric"
    /\ first = "5"
    /\ second = "5"
    /\ Len(res) = 1

----------------------------------------------------------------------------
(* C24 *)

\* the cells that a straight run from p onto the column (m is < or >) or the
\* row (m is ^ or v) of t steps onto: p is not among them, the end is
RunCells(p, t, m) ==
    CASE m = "<" -> {<<p[1], c>> : c \in t[2]..(p[2] - 1)}
      [] m = ">" -> {<<p[1], c>> : c \in (p[2] + 1)..t[2]}
      [] m = "^" -> {<<r, p[2]>> : r \in t[1]..(p[1] - 1)}
      [] m = "v" -> {<<r, p[2]>> : r \in (p[1] + 1)..t[1]}

\* the run from p in the direction m is to be expanded: the target lies in
\* that direction, and the run does not step onto the gap
RunAllowed(pad, p, t, m) ==
    /\ RunCells(p, t, m) # {}
    /\ pad.forbidden \notin RunCells(p, t, m)

\* the guard of the block of the direction m
GuardOf(pad, t, p, m) ==
    CASE m = "<" -> GuardLeft(pad, t, p[1], p[2])
      [] m = "^" -> GuardUp(pad, t, p[1], p[2])
      [] m = ">" -> GuardRight(pad, t, p[1], p[2])
      [] m = "v" -> GuardDown(pad, t, p[1], p[2])

\* the walks from p to t of at most two straight runs, one along the row and
\* one along the column, in either order
TwoRuns(p, t) ==
    { Repeat(IF t[2] < p[2] THEN "<" ELSE ">", Abs(t[2] - p[2]))
         \o Repeat(IF t[1] < p[1] THEN "^" ELSE "v", Abs(t[1] - p[1])),
      Repeat(IF t[1] < p[1] THEN "^" ELSE "v", Abs(t[1] - p[1]))
         \o Repeat(IF t[2] < p[2] THEN "<" ELSE ">", Abs(t[2] - p[2])) }

\* C24: a straight run in a direction is expanded if and only if the target
\* lies in that direction and the gap is none of the cells the run steps onto
\* (the start not counted, the end counted); so get_paths returns exactly the
\* walks of at most two straight runs that avoid the gap, each with its press.
C24_GuardsExact ==
    BetweenKeys =>
        /\ \A i \in DOMAIN q : \A m \in Moves :
              GuardOf(Keypad(g_pad), ToPos, q[i].pos, m)
                  <=> RunAllowed(Keypad(g_pad), q[i].pos, ToPos, m)
        /\ \A k \in DOMAIN Keypad(g_pad).keys : \A m \in Moves :
              GuardOf(Keypad(g_pad), ToPos, Keypad(g_pad).keys[k], m)
                  <=> RunAllowed(Keypad(g_pad), Keypad(g_pad).keys[k], ToPos, m)
        /\ gpc = "done" =>
              Range(res) = {w \o <<"A">> :
                              w \in {v \in TwoRuns(FromPos, ToPos) :
                                       Keypad(g_pad).forbidden \notin Range(Walk(FromPos, v))}}

\* get_paths has returned the one path from the key 1 to the key 0 of the
\* numeric keypad: the run down from 1 would end on the gap
C24_Witness ==
    /\ gpc = "done"
    /\ g_pad = "numeric"
    /\ first = "1"
    /\ second = "0"
    /\ res = << <<">", "v", "A">> >>
    /\ ~RunAllowed(numeric, FromPos, ToPos, "v")
    /\ RunCells(FromPos, ToPos, "v") # {}

----------------------------------------------------------------------------
(* C25 *)

\* the sum over the windows of s, from the i-th, of the Manhattan distance of
\* the two keys on the keypad pad and the one press
RECURSIVE DistancesAndPresses(_, _, _)
DistancesAndPresses(pad, s, i) ==
    IF i >= Len(s) THEN 0
    ELSE Manhattan(pad.keys[s[i]], pad.keys[s[i + 1]]) + 1
            + DistancesAndPresses(pad, s, i + 1)

\* at the last depth nothing is called, and what is returned and stored is
\* the sum of the distances and presses
LeafIsDirect ==
    /\ \A n \in DOMAIN stack :
          stack[n].depth = max_depth =>
              /\ n = Len(stack)
              /\ stack[n].pc # "paths"
              /\ stack[n].paths = <<>>
    /\ (epc = "done" /\ depth = max_depth) =>
          len = U(DistancesAndPresses(PadOf(depth), <<"A">> \o pin, 1))
    /\ \A k \in DOMAIN cache :
          k[1] = max_depth =>
              cache[k] = U(DistancesAndPresses(PadOf(k[1]), <<"A">> \o k[2], 1))

\* at another depth the candidates of a window are the sequences of
\* get_paths, and the value of each is what find_shortest_len has returned
\* for it at the next depth
CandidatesTranslated ==
    \A n \in DOMAIN stack :
        stack[n].pc = "paths" =>
            /\ stack[n].depth < max_depth
            /\ stack[n].paths = PathsAt(stack[n].depth,
                                        (<<"A">> \o stack[n].pin)[stack[n].i],
                                        (<<"A">> \o stack[n].pin)[stack[n].i + 1])
            /\ Len(stack[n].lens) = stack[n].j - 1
            /\ \A m \in DOMAIN stack[n].lens :
                  /\ <<stack[n].depth + 1, stack[n].paths[m]>> \in DOMAIN cache
                  /\ stack[n].lens[m] = cache[<<stack[n].depth + 1, stack[n].paths[m]>>]

\* a step that maps a window adds the least length of the candidates at the
\* last depth, and the least value of the translated candidates elsewhere
WindowCostAdded ==
    (Running /\ Len(stack') = Len(stack) /\ stack'[Len(stack)].i = Top.i + 1) =>
        IF Top.depth = max_depth
           THEN stack'[Len(stack)].sum =
                   UAdd(Top.sum, U(Manhattan(Keypad(PadNameOf(Top.depth)).keys[Chained[Top.i]],
                                             Keypad(PadNameOf(Top.depth)).keys[Chained[Top.i + 1]])
                                   + 1))
           ELSE /\ Len(Top.lens) = Len(Top.paths)
                /\ \A m \in DOMAIN Top.lens : ULeq(stack'[Len(stack)].sum, UAdd(Top.sum, Top.lens[m]))
                /\ \E m \in DOMAIN Top.lens : stack'[Len(stack)].sum = UAdd(Top.sum, Top.lens[m])

\* C25: at depth max_depth no recursive call is made and a pair costs the
\* least length of its candidates, so that find_shortest_len returns the sum
\* over the pairs of 'A' and the sequence of (Manhattan distance + 1); at a
\* depth below max_depth a pair costs the least of what find_shortest_len
\* returns at depth + 1 for its candidates.
C25_LeafAndRecursion ==
    /\ [](depth <= max_depth => LeafIsDirect /\ CandidatesTranslated)
    /\ [][depth <= max_depth => WindowCostAdded]_vars

\* a call at the last depth of the short chain is mapping the windows of a
\* candidate of two moves, for a caller that has translated one candidate of
\* two
C25_Witness ==
    /\ epc = "call"
    /\ max_depth = 2
    /\ Len(stack) = 3
    /\ Top.depth = max_depth
    /\ Top.pc = "window"
    /\ Top.i = 3
    /\ Top.sum # U(0)
    /\ Len(stack[2].paths) = 2
    /\ Len(stack[2].lens) = 1

----------------------------------------------------------------------------
(* C26 *)

\* C26: when evaluations that share one cache are interleaved in any order,
\* with each lookup and each insert taken at once, the writes to one key of
\* the cache all carry one value, and every evaluation that returns returns
\* what find_shortest_len returns for its code alone, with an empty cache.
C26_SharedCache ==
    /\ \A k \in DOMAIN writes :
          /\ \A i \in DOMAIN writes[k] : writes[k][i] = writes[k][1]
          /\ k \in DOMAIN cache
          /\ cache[k] = writes[k][1]
    /\ \A e \in DOMAIN evs :
          evs[e].pc = "done" => evs[e].len = Cost(evs[e].pin, 0, max_depth)

\* two evaluations of different codes have returned; both missed a sequence
\* at the depth 1 and both wrote it, and a sequence that one wrote was found
\* in the cache by the other
C26_Witness ==
    /\ max_depth = 2
    /\ Len(evs) = 2
    /\ evs[1].pc = "done"
    /\ evs[2].pc = "done"
    /\ evs[1].pin # evs[2].pin
    /\ <<1, <<"<", "A">> >> \in DOMAIN writes
    /\ Len(writes[<<1, <<"<", "A">> >>]) = 2
    /\ Len(writes[<<1, <<">", "A">> >>]) = 1

----------------------------------------------------------------------------
(* C27 *)

\* the activation f, at depth 0 of the short chain, has translated all the
\* candidates of the window from the key 2 to the key A
TwoToActivateTranslated(f) ==
    /\ max_depth = 2
    /\ f.depth = 0
    /\ f.pc = "paths"
    /\ f.i >= 1
    /\ f.i <= Len(f.pin)
    /\ (<<"A">> \o f.pin)[f.i] = "2"
    /\ (<<"A">> \o f.pin)[f.i + 1] = "A"
    /\ f.j > Len(f.paths)
    /\ Len(f.lens) = Len(f.paths)

\* C27: the translated cost is not the same for candidates of equal length:
\* on the numeric keypad, from the key 2 to the key A, at depth 0 of a chain
\* with max_depth 2, get_paths returns two sequences of one length for which
\* find_shortest_len returns different values at depth 1, and the first is
\* not the least, so that the first candidate in place of the least would
\* change the result.
C27_EqualLengthDifferentCost ==
    \A n \in DOMAIN stack :
        TwoToActivateTranslated(stack[n]) =>
            /\ Len(stack[n].paths) = 2
            /\ Len(stack[n].paths[1]) = Len(stack[n].paths[2])
            /\ stack[n].lens[1] # stack[n].lens[2]
            /\ UMin(stack[n].lens) # stack[n].lens[1]
            /\ stack[n].lens[1] = Cost(stack[n].paths[1], 1, max_depth)
            /\ stack[n].lens[2] = Cost(stack[n].paths[2], 1, max_depth)

\* the call for the sequence 2A has translated both candidates from 2 to A:
\* >vA to 21 presses and v>A to 17
C27_Witness ==
    /\ stack # <<>>
    /\ TwoToActivateTranslated(stack[1])
    /\ stack[1].pin = <<"2", "A">>
    /\ stack[1].paths = << <<">", "v", "A">>, <<"v", ">", "A">> >>
    /\ stack[1].lens = <<U(21), U(17)>>

----------------------------------------------------------------------------
(* C28 *)

\* the item of the queue is at the target, or at least one block expands it
NoDeadEnd(item) ==
    \/ item.pos = ToPos
    \/ Expand(Keypad(g_pad), ToPos, item) # <<>>

\* C28: for two keys of a keypad, get_paths returns one or two sequences and
\* none twice, and one when the keys are in one row or one column; the search
\* has no item that is neither at the target nor expanded, and where the
\* candidates of a window are translated there is one at least, so that
\* min().unwrap() does not panic.
C28_OneOrTwoPaths ==
    /\ BetweenKeys =>
          /\ \A i \in DOMAIN q : NoDeadEnd(q[i])
          /\ Len(res) <= 2
          /\ Cardinality(Range(res)) = Len(res)
          /\ gpc = "done" =>
                /\ Len(res) >= 1
                /\ (FromPos[1] = ToPos[1] \/ FromPos[2] = ToPos[2]) => Len(res) = 1
    /\ \A n \in DOMAIN stack :
          stack[n].pc = "paths" =>
              /\ Len(stack[n].paths) \in {1, 2}
              /\ stack[n].j > Len(stack[n].paths) => stack[n].lens # <<>>

\* get_paths has returned one sequence for two keys of the row of the gap of
\* the directional keypad
C28_Witness ==
    /\ gpc = "done"
    /\ g_pad = "directional"
    /\ first = "A"
    /\ second = "^"
    /\ res = << <<"<", "A">> >>
    /\ stack = <<>>

----------------------------------------------------------------------------
(* C29 *)

\* the key of every activation whose body is running is not in the cache,
\* and no two such activations have one key
BodiesOfAbsentKeys ==
    \A n \in DOMAIN stack :
        stack[n].pc # "enter" =>
            /\ <<stack[n].depth, stack[n].pin>> \notin DOMAIN cache
            /\ \A m \in DOMAIN stack :
                  (m # n /\ stack[m].pc # "enter") =>
                      <<stack[m].depth, stack[m].pin>> # <<stack[n].depth, stack[n].pin>>

\* a step that changes the cache within an invocation adds one key, the key
\* of the running activation, and leaves no key with another value
InsertAddsKey ==
    (cache' # cache /\ spc' = spc) =>
        /\ DOMAIN cache' = DOMAIN cache \cup {<<Top.depth, Top.pin>>}
        /\ <<Top.depth, Top.pin>> \notin DOMAIN cache
        /\ cache'[<<Top.depth, Top.pin>>] = Top.sum

\* C29: in one run of solver a key of the cache is written once at most: when
\* find_shortest_len inserts (depth, sequence), the key is not in the cache
\* (no call between the lookup and the insert has inserted it), so that the
\* insert overwrites nothing.
C29_WrittenOnce ==
    /\ []BodiesOfAbsentKeys
    /\ [][InsertAddsKey]_vars

\* the activation at depth 1 of the long chain is about to insert its key,
\* after the calls it made have inserted theirs
C29_Witness ==
    /\ spc = "run"
    /\ part2
    /\ Len(stack) = 2
    /\ Top.pc = "window"
    /\ Top.i >= Len(Chained)
    /\ <<1, Top.pin>> \notin DOMAIN cache
    /\ \E k \in DOMAIN cache : k[1] = 2
    /\ \E k \in DOMAIN cache : k[1] = MaxDepthOf(TRUE)

----------------------------------------------------------------------------
(* C30 *)

\* the code is one or more decimal digits and then one more character
DigitsThenOne(code) ==
    /\ Len(code) >= 2
    /\ \A i \in 1..(Len(code) - 1) : code[i] \in Digits

\* the products that were computed are those of codes of digits and one more
\* character, a total is returned only for a file of such codes, and when
\* solver panics after find_shortest_len has returned, the code is not one
ProductsOfDigitsThenOne ==
    spc \in {"run", "done", "panic"} =>
        /\ \A i \in 1..idx : DigitsThenOne(input[i])
        /\ spc = "done" => idx = Len(input)
        /\ (spc = "panic" /\ epc = "done") =>
              /\ pin = input[idx + 1]
              /\ ~DigitsThenOne(pin)
              /\ len = Cost(pin, 0, max_depth)
        /\ (epc = "done" /\ pin = <<>>) => len = U(0)
        /\ (epc = "done" /\ pin = <<"A">>) => len = U(1)

\* C30: solver panics and returns no total when a code is empty or is, without
\* its last character, no decimal number (the code A, a code with another
\* character than a digit before its last), though find_shortest_len returns
\* a cost for the empty sequence and for A; the product is computed only for
\* codes of one or more digits and one more character.
C30_AbortsOnCodes ==
    /\ []ProductsOfDigitsThenOne
    /\ (spc = "run" /\ \E i \in DOMAIN input : ~DigitsThenOne(input[i])) ~> (spc = "panic")

\* solver has panicked on the code A, the second of a file, after
\* find_shortest_len returned the cost 1 for it
C30_Witness ==
    /\ spc = "panic"
    /\ epc = "done"
    /\ idx = 1
    /\ pin = <<"A">>
    /\ len = U(1)
    /\ DigitsThenOne(input[1])

====
